---- MODULE Spec2Model ----
(***************************************************************************)
(* Model of client/scripts/render-ship-frames.py: the Blender script that  *)
(* rotates the object named "Ship" about Z through NUM_FRAMES poses and    *)
(* renders each pose to ship_NNN.png.                                      *)
(*                                                                         *)
(* The script is sequential; pc is the statement about to execute.  Angles *)
(* are held in fixed point, Unit units per degree (and per radian), and    *)
(* the float division and the degree->radian conversion round to the       *)
(* nearest unit, as the double operations round to the nearest double.     *)
(* Paths are sequences of components; a file name is a record of prefix,   *)
(* decimal digits and extension.                                           *)
(***************************************************************************)
EXTENDS Integers, Sequences, FiniteSets, TLC

\* ------------------------------------------------------------ bounds ----
MaxFrames == 7          \* frame counts 0..MaxFrames are explored beside 64
MaxRuns == 2            \* invocations of the script on the same blend file

\* ----------------------------------------------------- configuration ----
SHIP_OBJECT_NAME == "Ship"
OUTPUT_DIR == <<"assets", "sprites", "ship_frames">>
NUM_FRAMES == 64
RESOLUTION == 256

FrameCounts == (0..MaxFrames) \cup {NUM_FRAMES}

\* -------------------------------------------------------- arithmetic ----
Unit == 2^12            \* fixed-point units per degree / per radian
PiNum == 355            \* pi ~ PiNum / PiDen
PiDen == 113

\* a / b rounded to the nearest integer (a >= 0, b > 0)
RoundDiv(a, b) == (2 * a + b) \div (2 * b)

\* 360.0 / NUM_FRAMES
StepDegrees(n) == RoundDiv(360 * Unit, n)

AngleDegreesOffByOne(i, n) == (i + 1) * StepDegrees(n)
\* angle_degrees = i * (360.0 / NUM_FRAMES): the rounded quotient times i,
\* from i alone (the integer product is exact in fixed point)
AngleDegrees(i, n) == i * StepDegrees(n)

\* math.radians(d) = d * pi / 180
Radians(d) == RoundDiv(d * PiNum, 180 * PiDen)

RangeInclusive(n) == 0 .. n
\* range(n)
Range(n) == 0 .. (n - 1)

\* ------------------------------------------------------------- paths ----
RECURSIVE DecDigits(_)
DecDigits(n) == IF n < 10 THEN <<n>> ELSE Append(DecDigits(n \div 10), n % 10)

RECURSIVE ZeroPad(_, _)
ZeroPad(ds, w) == IF Len(ds) >= w THEN ds ELSE ZeroPad(<<0>> \o ds, w)

FilenameLastDigit(i) ==
    [prefix |-> "ship_", index |-> ZeroPad(DecDigits(i % 10), 3), ext |-> ".png"]
\* f"ship_{i:03d}.png"
Filename(i) == [prefix |-> "ship_", index |-> ZeroPad(DecDigits(i), 3), ext |-> ".png"]

\* os.path.dirname
Dirname(p) == SubSeq(p, 1, Len(p) - 1)

\* os.path.abspath of an absolute path: ".." removes the component before it
RECURSIVE Normalize(_, _)
Normalize(done, rest) ==
    IF rest = <<>> THEN done
    ELSE IF Head(rest) = ".."
         THEN Normalize(IF done = <<>> THEN done ELSE SubSeq(done, 1, Len(done) - 1),
                        Tail(rest))
         ELSE Normalize(Append(done, Head(rest)), Tail(rest))
Abspath(p) == Normalize(<<>>, p)

\* os.path.join(output_path, filename)
JoinFile(dir, name) == [dir |-> dir, name |-> name]

\* every directory os.makedirs(p) leaves in existence
Ancestors(p) == {SubSeq(p, 1, k) : k \in 1..Len(p)}

\* os.path.abspath(os.path.join(blend_dir, "..", OUTPUT_DIR))
OutputPath(blend) == Abspath(Dirname(blend) \o <<"..">> \o OUTPUT_DIR)

\* ------------------------------------------------------- host values ----
NoFile == [dir |-> <<"tmp">>, name |-> [prefix |-> "", index |-> <<>>, ext |-> ""]]

\* scene.render as the blend file (or the startup scene) holds it
LoadedRender ==
    [resolution_x |-> 1920, resolution_y |-> 1080, resolution_percentage |-> 50,
     film_transparent |-> FALSE, file_format |-> "JPEG", color_mode |-> "RGB",
     compression |-> 90, filepath |-> NoFile]

\* the render settings setup_scene leaves
Configured(r) ==
    [r EXCEPT !.resolution_x = RESOLUTION, !.resolution_y = RESOLUTION,
              !.resolution_percentage = 100, !.film_transparent = TRUE,
              !.file_format = "PNG", !.color_mode = "RGBA", !.compression = 15]

InitRenders == {LoadedRender, Configured(LoadedRender)}

BlendPath == <<"proj", "assets", "blender", "ship1.blend">>
BlendPaths == {<<>>, BlendPath}

ObjectSets == {{"Camera", "Light"}, {"Camera", "Light", SHIP_OBJECT_NAME}}

\* starting orientations <<x, y, z>> in radian units
InitRotations == {<<0, 0, 0>>, <<700, -300, 1608>>, <<0, 0, 2 * Unit>>}

VARIABLES
    pc,               \* statement about to execute
    run,              \* which invocation of the script this is
    num_frames,       \* the value NUM_FRAMES is configured to
    blend_filepath,   \* bpy.data.filepath
    objects,          \* names in bpy.data.objects
    euler,            \* Euler objects: "ship" is ship.rotation_euler
    evaluated,        \* the ship rotation the view layer last evaluated
    render,           \* scene.render settings
    dirs,             \* directories that exist
    files,            \* image files that exist
    ship,             \* local of main: the object found
    output_path,      \* local of main
    original_rotation,\* local: which Euler object holds the saved rotation
    it,               \* the for loop's iterator: next index to yield
    i,                \* loop variable
    angle_degrees,
    angle_radians,
    filename,
    filepath,
    exit_code,        \* process exit status, -1 while none
    error,            \* exception that ended the run, or "none"
    assigned,         \* history: each angle assigned to ship.rotation_euler[2]
    calls,            \* history: index of every render call made
    rendered,         \* history: one record per completed render call
    start,            \* host state when this invocation started
    prev              \* what the previous invocation wrote

locals == <<ship, output_path, original_rotation, it, i, angle_degrees,
            angle_radians, filename, filepath>>
host == <<euler, evaluated, render>>
disk == <<dirs, files>>
hist == <<assigned, calls, rendered>>
fixed == <<run, num_frames, blend_filepath, objects, start, prev>>
outcome == <<exit_code, error>>
vars == <<pc, locals, host, disk, hist, fixed, outcome>>

Init ==
    /\ pc = "main"
    /\ run = 1
    /\ num_frames \in FrameCounts
    /\ blend_filepath \in BlendPaths
    /\ objects \in ObjectSets
    /\ \E r \in InitRotations : euler = [o \in {"ship"} |-> r]
    /\ evaluated = euler["ship"]
    /\ render \in InitRenders
    /\ dirs \in {{}, Ancestors(OutputPath(BlendPath))}
    /\ files = {}
    /\ ship = "None"
    /\ output_path = <<>>
    /\ original_rotation = "None"
    /\ it = 0
    /\ i = -1
    /\ angle_degrees = 0
    /\ angle_radians = 0
    /\ filename = NoFile.name
    /\ filepath = NoFile
    /\ exit_code = -1
    /\ error = "none"
    /\ assigned = <<>>
    /\ calls = <<>>
    /\ rendered = <<>>
    /\ start = [rot |-> euler["ship"], render |-> render, dirs |-> dirs, files |-> files]
    /\ prev = [ran |-> FALSE, exit_code |-> -1, written |-> {}, files |-> {}]

\* sys.exit(code)
Exit(code) ==
    /\ pc' = "exited"
    /\ exit_code' = code
    /\ UNCHANGED error

\* an uncaught exception leaves main
Raise(e) ==
    /\ pc' = "raised"
    /\ error' = e
    /\ UNCHANGED exit_code

Goto(l) ==
    /\ pc' = l
    /\ UNCHANGED outcome

CheckBlendFileAfterSetup ==
    /\ pc = "main"
    /\ render' = Configured(render)
    /\ IF blend_filepath = <<>> THEN Exit(1) ELSE Goto("find_ship_object")
    /\ UNCHANGED <<locals, euler, evaluated, disk, hist, fixed>>
\* main: if not bpy.data.filepath: sys.exit(1)
CheckBlendFile ==
    /\ pc = "main"
    /\ IF blend_filepath = <<>> THEN Exit(1) ELSE Goto("setup_scene")
    /\ UNCHANGED <<locals, host, disk, hist, fixed>>

\* setup_scene
SetupScene ==
    /\ pc = "setup_scene"
    /\ render' = Configured(render)
    /\ Goto("find_ship_object")
    /\ UNCHANGED <<locals, euler, evaluated, disk, hist, fixed>>

FindShipObjectNoExit ==
    /\ pc = "find_ship_object"
    /\ Goto("create_output_directory")
    /\ ship' = "ship"
    /\ UNCHANGED <<output_path, original_rotation, it, i, angle_degrees,
                   angle_radians, filename, filepath, host, disk, hist, fixed>>
\* find_ship_object: bpy.data.objects.get(SHIP_OBJECT_NAME), sys.exit(1) if none
FindShipObject ==
    /\ pc = "find_ship_object"
    /\ IF SHIP_OBJECT_NAME \notin objects
       THEN Exit(1) /\ UNCHANGED ship
       ELSE Goto("create_output_directory") /\ ship' = "ship"
    /\ UNCHANGED <<output_path, original_rotation, it, i, angle_degrees,
                   angle_radians, filename, filepath, host, disk, hist, fixed>>

\* create_output_directory: os.makedirs(output_path, exist_ok=True)
CreateOutputDirectory ==
    /\ pc = "create_output_directory"
    /\ output_path' = OutputPath(blend_filepath)
    /\ dirs' = dirs \cup Ancestors(output_path')
    /\ Goto("save_rotation")
    /\ UNCHANGED <<ship, original_rotation, it, i, angle_degrees, angle_radians,
                   filename, filepath, host, files, hist, fixed>>

\* os.makedirs raises: the directory is missing and cannot be made
CreateOutputDirectoryRaise ==
    /\ pc = "create_output_directory"
    /\ OutputPath(blend_filepath) \notin dirs
    /\ Raise("OSError")
    /\ UNCHANGED <<locals, host, disk, hist, fixed>>

CopyAlias(src) == src
\* the object Euler.copy() returns: a new one, distinct from src
Copy(src) == "copy"

\* original_rotation = ship.rotation_euler.copy()
SaveRotation ==
    /\ pc = "save_rotation"
    /\ original_rotation' = Copy(ship)
    /\ euler' = [o \in DOMAIN euler \cup {Copy(ship)} |-> euler[ship]]
    /\ it' = 0
    /\ Goto("for")
    /\ UNCHANGED <<ship, output_path, i, angle_degrees, angle_radians, filename,
                   filepath, evaluated, render, disk, hist, fixed>>

\* for i in range(NUM_FRAMES)
ForNext ==
    /\ pc = "for"
    /\ IF it \in Range(num_frames)
       THEN i' = it /\ it' = it + 1 /\ Goto("angle")
       ELSE Goto("restore") /\ UNCHANGED <<i, it>>
    /\ UNCHANGED <<ship, output_path, original_rotation, angle_degrees,
                   angle_radians, filename, filepath, host, disk, hist, fixed>>

\* angle_degrees = i * (360.0 / NUM_FRAMES); angle_radians = math.radians(...)
ComputeAngle ==
    /\ pc = "angle"
    /\ IF num_frames = 0
       THEN Raise("ZeroDivisionError") /\ UNCHANGED <<angle_degrees, angle_radians>>
       ELSE /\ angle_degrees' = AngleDegrees(i, num_frames)
            /\ angle_radians' = Radians(angle_degrees')
            /\ Goto("set_rotation")
    /\ UNCHANGED <<ship, output_path, original_rotation, it, i, filename, filepath,
                   host, disk, hist, fixed>>

SetY(e, v) == [e EXCEPT ![2] = v]
\* e[2] = v  (Python index 2 is the Z component)
SetZ(e, v) == [e EXCEPT ![3] = v]

\* ship.rotation_euler[2] = angle_radians
SetRotation ==
    /\ pc = "set_rotation"
    /\ euler' = [euler EXCEPT ![ship] = SetZ(@, angle_radians)]
    /\ assigned' = Append(assigned, [degrees |-> angle_degrees, radians |-> angle_radians])
    /\ Goto("update")
    /\ UNCHANGED <<locals, evaluated, render, disk, calls, rendered, fixed>>

UpdateViewLayerSkipped == UNCHANGED evaluated
\* bpy.context.view_layer.update()
UpdateViewLayerEffect == evaluated' = euler[ship]

UpdateViewLayer ==
    /\ pc = "update"
    /\ UpdateViewLayerEffect
    /\ Goto("set_filepath")
    /\ UNCHANGED <<locals, euler, render, disk, hist, fixed>>

\* filename = ...; filepath = os.path.join(...); scene.render.filepath = filepath
SetFilepath ==
    /\ pc = "set_filepath"
    /\ filename' = Filename(i)
    /\ filepath' = JoinFile(output_path, filename')
    /\ render' = [render EXCEPT !.filepath = filepath']
    /\ Goto("render")
    /\ UNCHANGED <<ship, output_path, original_rotation, it, i, angle_degrees,
                   angle_radians, euler, evaluated, disk, hist, fixed>>

\* bpy.ops.render.render(write_still=True) is entered
RenderCall ==
    /\ pc = "render"
    /\ calls' = Append(calls, i)
    /\ Goto("rendering")
    /\ UNCHANGED <<locals, host, disk, assigned, rendered, fixed>>

\* the render call returns, the still written to scene.render.filepath
RenderReturn ==
    /\ pc = "rendering"
    /\ files' = files \cup {render.filepath}
    /\ rendered' = Append(rendered, [index |-> i, z |-> euler[ship][3],
                                     pose |-> evaluated, filepath |-> render.filepath])
    /\ Goto("progress")
    /\ UNCHANGED <<locals, host, dirs, assigned, calls, fixed>>

RenderRaiseSkipped ==
    /\ pc = "rendering"
    /\ Goto("progress")
    /\ UNCHANGED <<locals, host, disk, hist, fixed>>
\* the render call raises
RenderRaise ==
    /\ pc = "rendering"
    /\ Raise("RuntimeError")
    /\ UNCHANGED <<locals, host, disk, hist, fixed>>

\* progress = (i + 1) / NUM_FRAMES * 100 ...; print(...)
Progress ==
    /\ pc = "progress"
    /\ Goto("for")
    /\ UNCHANGED <<locals, host, disk, hist, fixed>>

\* ship.rotation_euler = original_rotation
RestoreRotation ==
    /\ pc = "restore"
    /\ euler' = [euler EXCEPT ![ship] = euler[original_rotation]]
    /\ Goto("summary")
    /\ UNCHANGED <<locals, evaluated, render, disk, hist, fixed>>

\* render_rotation_frames returns; main prints the summary and returns
Summary ==
    /\ pc = "summary"
    /\ Exit(0)
    /\ UNCHANGED <<locals, host, disk, hist, fixed>>

Terminal == pc \in {"exited", "raised"}

\* paths the render calls of this invocation wrote
Written == {rendered[k].filepath : k \in 1..Len(rendered)}

\* the script is invoked again on the same blend file after a run that
\* exited: the host reloads the file (the script never saves it), the disk
\* keeps what was written
Rerun ==
    /\ pc = "exited"
    /\ run < MaxRuns
    /\ run' = run + 1
    /\ prev' = [ran |-> TRUE, exit_code |-> exit_code, written |-> Written,
                files |-> files]
    /\ start' = [start EXCEPT !.dirs = dirs, !.files = files]
    /\ pc' = "main"
    /\ euler' = [o \in {"ship"} |-> start.rot]
    /\ evaluated' = start.rot
    /\ render' = start.render
    /\ ship' = "None"
    /\ output_path' = <<>>
    /\ original_rotation' = "None"
    /\ it' = 0
    /\ i' = -1
    /\ angle_degrees' = 0
    /\ angle_radians' = 0
    /\ filename' = NoFile.name
    /\ filepath' = NoFile
    /\ exit_code' = -1
    /\ error' = "none"
    /\ assigned' = <<>>
    /\ calls' = <<>>
    /\ rendered' = <<>>
    /\ UNCHANGED <<num_frames, blend_filepath, objects, disk>>

\* one statement of the running script
Step ==
    \/ CheckBlendFile
    \/ SetupScene
    \/ FindShipObject
    \/ CreateOutputDirectory
    \/ CreateOutputDirectoryRaise
    \/ SaveRotation
    \/ ForNext
    \/ ComputeAngle
    \/ SetRotation
    \/ UpdateViewLayer
    \/ SetFilepath
    \/ RenderCall
    \/ RenderReturn
    \/ RenderRaise
    \/ Progress
    \/ RestoreRotation
    \/ Summary

Next == Step \/ Rerun

Spec == Init /\ [][Next]_vars

\* the interpreter keeps executing the script; nobody is obliged to rerun it
FairSpec == Spec /\ WF_vars(Step)

\* ============================================================ claims ====
InLoopBody == pc \in {"angle", "set_rotation", "update", "set_filepath", "render",
                      "rendering", "progress"}
Succeeded == pc = "exited" /\ exit_code = 0
LoopFinished == pc \in {"restore", "summary"} \/ Succeeded

Abs(x) == IF x < 0 THEN -x ELSE x

\* the number a sequence of decimal digits writes
RECURSIVE DigitsValue(_)
DigitsValue(ds) ==
    IF ds = <<>> THEN 0
    ELSE 10 * DigitsValue(SubSeq(ds, 1, Len(ds) - 1)) + ds[Len(ds)]

\* C1: for N > 0 the loop assigns exactly N angles; the k-th (0-based) is
\* k * 360/N degrees to within the rounding of the quotient 360/N (exactly
\* when that quotient is exact), the first is 0, they are strictly increasing
\* and evenly spaced, every one is below 360 degrees, and the radians handed
\* to the target are strictly increasing and below a full turn too.
C1_AnglesEvenlySpaced ==
    /\ Len(assigned) <= num_frames
    /\ LoopFinished => Len(assigned) = num_frames
    /\ \A k \in 1..Len(assigned) :
        LET a == assigned[k].degrees
            r == assigned[k].radians
        IN /\ 2 * Abs(a * num_frames - (k - 1) * 360 * Unit) <= (k - 1) * num_frames
           /\ ((360 * Unit) % num_frames = 0 => a * num_frames = (k - 1) * 360 * Unit)
           /\ (k = 1 => a = 0 /\ r = 0)
           /\ a < 360 * Unit
           /\ r * PiDen < 2 * PiNum * Unit
           /\ k > 1 => /\ a > assigned[k - 1].degrees
                       /\ r > assigned[k - 1].radians
                       /\ a - assigned[k - 1].degrees = assigned[2].degrees
C1_Witness ==
    /\ Succeeded
    /\ num_frames = MaxFrames
    /\ Len(assigned) = MaxFrames
    /\ (360 * Unit) % num_frames # 0

\* C2: when render_rotation_frames returns (every render call having
\* succeeded), the target's rotation equals the rotation it had before the run.
C2_RestoredAfterSuccess ==
    (pc = "summary" \/ Succeeded) => euler["ship"] = start.rot
C2_Witness ==
    /\ Succeeded
    /\ Len(rendered) = NUM_FRAMES
    /\ start.rot[3] # assigned[Len(assigned)].radians

\* C3: in every terminal state of a run that saved the rotation, a failed
\* run included, the target's rotation equals its pre-run value.
C3_RestoredOnEveryExit ==
    (Terminal /\ original_rotation # "None") => euler["ship"] = start.rot

\* C4: with no blend file loaded, or no object of the configured name, main
\* never enters the render loop, makes no render call, writes no file,
\* never assigns the rotation, and if it ends it ends by exit status 1.
C4_PreconditionFailureExits ==
    (blend_filepath = <<>> \/ SHIP_OBJECT_NAME \notin objects) =>
        /\ calls = <<>>
        /\ rendered = <<>>
        /\ files = {}
        /\ assigned = <<>>
        /\ euler["ship"] = start.rot
        /\ pc \in {"main", "setup_scene", "find_ship_object", "exited"}
        /\ pc = "exited" => exit_code = 1
C4_Witness ==
    /\ pc = "exited"
    /\ exit_code = 1
    /\ blend_filepath # <<>>
    /\ SHIP_OBJECT_NAME \notin objects
    /\ run = MaxRuns

PreconditionAbort == pc = "exited" /\ exit_code = 1

\* C5 as stated: when main aborts on a precondition, the render settings,
\* the output directory and the target's rotation are as they were at start.
C5_NoMutationBeforeAbort ==
    PreconditionAbort =>
        /\ render = start.render
        /\ dirs = start.dirs
        /\ files = start.files
        /\ euler["ship"] = start.rot

\* C5 amended: on a precondition abort the output directory, the files and
\* the target's rotation are as they were at start; the render settings are
\* untouched when the blend file is missing, and are the ones setup_scene
\* configures when the abort is for the missing object.
C5_AbortLeavesDiskAndRotation ==
    PreconditionAbort =>
        /\ dirs = start.dirs
        /\ files = start.files
        /\ euler["ship"] = start.rot
        /\ blend_filepath = <<>> => render = start.render
        /\ blend_filepath # <<>> => render = Configured(start.render)
C5_Witness ==
    /\ PreconditionAbort
    /\ blend_filepath # <<>>
    /\ render # start.render
    /\ OutputPath(blend_filepath) \notin dirs

\* C6: the path of frame i is the fixed output directory plus "ship_", i in
\* decimal padded to at least 3 digits, ".png"; distinct indices get distinct
\* paths; and a second complete run writes exactly the paths the first
\* complete run wrote, leaving the same set of files.
C6_PathsDeterministic ==
    /\ \A k \in 1..Len(rendered) :
        LET f == rendered[k].filepath
        IN /\ f.dir = OutputPath(blend_filepath)
           /\ f.name.prefix = "ship_"
           /\ f.name.ext = ".png"
           /\ Len(f.name.index) >= 3
           /\ DigitsValue(f.name.index) = rendered[k].index
    /\ Cardinality(Written) = Cardinality({rendered[k].index : k \in 1..Len(rendered)})
    /\ (prev.ran /\ prev.exit_code = 0) => Written \subseteq prev.written /\ files = prev.files
    /\ (prev.ran /\ prev.exit_code = 0 /\ Succeeded) => Written = prev.written
C6_Witness ==
    /\ Succeeded
    /\ prev.ran
    /\ prev.exit_code = 0
    /\ Cardinality(files) = NUM_FRAMES

\* a render call was made that did not return, and is not in progress
RenderFailed == Len(calls) > Len(rendered) /\ pc # "rendering"

\* C7: once the render call for frame k has failed the run has ended with
\* the exception, not with an exit status; frame k was called once and no
\* later frame was called; exactly frames 0..k-1 completed.
C7_RenderFailureFatal ==
    /\ RenderFailed =>
        /\ pc = "raised"
        /\ error = "RuntimeError"
        /\ exit_code = -1
        /\ Len(calls) = Len(rendered) + 1
        /\ \A k \in 1..Len(calls) : calls[k] = k - 1
        /\ \A k \in 1..Len(rendered) : rendered[k].index = k - 1
    /\ error = "RuntimeError" => RenderFailed
C7_Witness ==
    /\ pc = "raised"
    /\ error = "RuntimeError"
    /\ Len(rendered) = 2
    /\ calls = <<0, 1, 2>>

\* C8: with frame count 1 a complete run renders exactly one frame, at
\* angle 0; with frame count 0 the loop body is never entered (the angle
\* formula is not evaluated), no angle is assigned, no render call made, the
\* rotation keeps its pre-run value and the sequencer ends without error.
C8_BoundaryFrameCounts ==
    /\ num_frames = 1 =>
        /\ Len(calls) <= 1
        /\ Succeeded => /\ Len(rendered) = 1
                        /\ rendered[1].index = 0
                        /\ rendered[1].z = 0
                        /\ assigned = <<[degrees |-> 0, radians |-> 0]>>
    /\ num_frames = 0 =>
        /\ ~InLoopBody
        /\ calls = <<>>
        /\ assigned = <<>>
        /\ files = {}
        /\ euler["ship"] = start.rot
        /\ error \in {"none", "OSError"}
        /\ (Terminal /\ original_rotation # "None") => Succeeded
C8_Witness ==
    /\ num_frames = 0
    /\ Succeeded
    /\ original_rotation # "None"

\* C9 (safety part): render calls are made for 0, 1, ... in order, each
\* after the previous one returned; while a call is pending or in progress
\* the target's Z rotation is the angle assigned for index i, the view layer
\* has evaluated that rotation, and the scene's output path is the path of
\* index i; a complete run made exactly N calls and all returned.
RenderOrdered ==
    /\ \A k \in 1..Len(calls) : calls[k] = k - 1
    /\ \A k \in 1..Len(rendered) :
        /\ rendered[k].index = k - 1
        /\ rendered[k].z = assigned[k].radians
        /\ rendered[k].pose[3] = assigned[k].radians
        /\ DigitsValue(rendered[k].filepath.name.index) = k - 1
    /\ pc \in {"render", "rendering"} =>
        /\ Len(assigned) = i + 1
        /\ euler[ship][3] = assigned[i + 1].radians
        /\ 2 * Abs(assigned[i + 1].degrees * num_frames - i * 360 * Unit) <= i * num_frames
        /\ evaluated = euler[ship]
        /\ render.filepath = filepath
        /\ DigitsValue(render.filepath.name.index) = i
        /\ Len(rendered) = i
        /\ Len(calls) = IF pc = "render" THEN i ELSE i + 1
    /\ pc \in {"angle", "set_rotation", "update", "set_filepath"} =>
        Len(calls) = i /\ Len(rendered) = i
    /\ LoopFinished => Len(calls) = num_frames /\ Len(rendered) = num_frames

\* C9: the above in every state, and a run that entered
\* render_rotation_frames ends.
C9_RenderSequence == []RenderOrdered /\ ((pc = "save_rotation") ~> Terminal)
C9_Witness ==
    /\ Succeeded
    /\ num_frames = 4
    /\ Len(rendered) = 4
    /\ start.rot[3] # 0

\* C10: while render_rotation_frames runs, the X and Y components of the
\* target's rotation keep their pre-run values, and the saved rotation is a
\* separate object still holding the pre-run rotation.
C10_OnlyZChanges ==
    /\ euler["ship"][1] = start.rot[1]
    /\ euler["ship"][2] = start.rot[2]
    /\ evaluated[1] = start.rot[1]
    /\ evaluated[2] = start.rot[2]
    /\ original_rotation # "None" =>
        /\ original_rotation # ship
        /\ euler[original_rotation] = start.rot
C10_Witness ==
    /\ pc = "rendering"
    /\ euler["ship"][3] # start.rot[3]
    /\ start.rot[1] # 0
    /\ start.rot[2] # 0
====
